---- MODULE Spec2Model ----
(***************************************************************************)
(* A model of world-globe's main.py: the batch pipeline (tabular loaders,  *)
(* language map, border cache, annotation, report emission) and the        *)
(* viewer script that main.py embeds in the emitted document.              *)
(*                                                                         *)
(* Floating-point values are finite doubles or NaN.  A Python float that   *)
(* the tables can hold is a record [isnan, val]; the viewer's logarithms   *)
(* and normalised heights are fixed-point integers (see the viewer part).  *)
(***************************************************************************)
EXTENDS Integers, Sequences, FiniteSets, TLC

VARIABLES
    \* ---- the file system and the network, as main() sees them
    exists,        \* the required input files that exist
    pop_wide,      \* content of POP_CSV as pd.read_csv gives it (wide rows)
    gdp_wide,      \* content of GDP_CSV (wide rows)
    cont_csv,      \* content of CONTINENTS_CSV (rows alpha-3, region)
    lang_csv,      \* content of COUNTRY_LANG_CSV (rows country, languages)
    cache,         \* content of GEOJSON_CACHE, or Absent
    out_file,      \* content of the output file, or Absent
    \* ---- main(): position and local variables
    pc,            \* the step main() is about to execute
    pop,           \* long-form population table, a sequence of rows
    gdp,           \* long-form GDP table
    cont,          \* continent table
    years,         \* the global year list
    pop_series,    \* iso3 -> array over years
    gdp_series,    \* iso3 -> array over years
    continent_map, \* iso3 -> continent
    li,            \* read_country_languages: rows visited so far
    iso3_to_langs, \* iso3 -> language list
    all_langs_set, \* read_country_languages: the set of languages seen
    bad_rows,      \* read_country_languages: the diagnostic counter
    all_languages, \* the sorted language list
    heap,          \* the border collections allocated by this run, by reference
    geojson,       \* main()'s variable geojson: a reference into heap, 0 if unset
    \* ---- history of the current run (not program state)
    seen,          \* input files that passed require_file in this run
    fetches,       \* network fetches made by this run
    writes,        \* writes of the output file made by this run
    runs,          \* runs started so far
    \* ---- the viewer script of the emitted document
    GEOJSON,       \* GEOJSON.features: the property bag of each feature
    state,         \* the state object: the six filter selections
    loaded,        \* whether the script has run to its end
    atLoad,        \* history: the features as the initial load left them
    lastEvent      \* history: the kind of the last event handled

fsVars == <<exists, pop_wide, gdp_wide, cont_csv, lang_csv>>
tabVars == <<pop, gdp, cont, years, pop_series, gdp_series, continent_map>>
langVars == <<li, iso3_to_langs, all_langs_set, bad_rows, all_languages>>
geoVars == <<heap, geojson>>
histVars == <<seen, fetches, writes, runs>>

viewVars == <<GEOJSON, state, loaded, atLoad, lastEvent>>

vars == <<fsVars, cache, out_file, pc, tabVars, langVars, geoVars, histVars, viewVars>>

(***************************************************************************)
(* Generic helpers on sequences and sets.                                  *)
(***************************************************************************)
Range(s) == {s[i] : i \in DOMAIN s}

RECURSIVE SeqsUpTo(_, _)
\* all sequences over S of length at most n
SeqsUpTo(S, n) ==
    IF n = 0 THEN {<<>>}
    ELSE LET shorter == SeqsUpTo(S, n - 1)
         IN  shorter \cup {Append(s, x) : s \in {t \in shorter : Len(t) = n - 1}, x \in S}

RECURSIVE SortedSeq(_)
\* the ascending sequence of the integers of a finite set
SortedSeq(S) ==
    IF S = {} THEN <<>>
    ELSE LET m == CHOOSE x \in S : \A y \in S : x <= y
         IN  <<m>> \o SortedSeq(S \ {m})

(***************************************************************************)
(* Python floats: finite numbers and NaN.                                  *)
(***************************************************************************)
Num(n) == [isnan |-> FALSE, val |-> n]
NaN == [isnan |-> TRUE, val |-> 0]

\* pd.isna(v)
IsNa(v) == v.isnan

(***************************************************************************)
(* Bounds of the tabular inputs.                                           *)
(***************************************************************************)
MaxRows == 2

\* country codes as they may stand in a CSV (any casing)
RawCodes == {"usa", "USA", "FRA"}
\* cells of a year column as text
Cells == {"n/a", "5", "7"}

\* header of the population CSV: one identity column, one non-year column,
\* the year columns (in the file's order)
PopColumns == <<"Country Code", "Country Name", "2023", "2022">>
\* header of the GDP CSV after the "Unnamed" columns are discarded
GdpColumns == <<"Country Code", "2023", "2024">>

\* str.isdigit() on the headers in use
IsDigit(c) == c \in {"2022", "2023", "2024"}

\* int(header) for the digit headers in use
ToInt(c) ==
    CASE c = "2022" -> 2022
      [] c = "2023" -> 2023
      [] c = "2024" -> 2024

\* pd.to_numeric(errors="coerce") on one cell
ToNumeric(cell) ==
    CASE cell = "5" -> Num(5)
      [] cell = "7" -> Num(7)
      [] OTHER -> NaN

\* str.upper() on the codes in use
Upper(code) ==
    CASE code = "usa" -> "USA"
      [] code = "fra" -> "FRA"
      [] OTHER -> code

YearCols(columns) == SelectSeq(columns, IsDigit)

\* a wide row: the identity column and one text cell per year column
WideRows(columns) ==
    [code : RawCodes, cells : [Range(YearCols(columns)) -> Cells]]

WideTables(columns) == SeqsUpTo(WideRows(columns), MaxRows)

RECURSIVE MeltCols(_, _, _)
\* DataFrame.melt: for each year column in turn, one row per wide row
MeltCols(df, ycols, value_name) ==
    IF ycols = <<>> THEN <<>>
    ELSE [i \in 1..Len(df) |->
            (value_name :> df[i].cells[Head(ycols)]) @@
            [iso3 |-> df[i].code, year |-> ToInt(Head(ycols))]]
         \o MeltCols(df, Tail(ycols), value_name)

wide_to_long(df, columns, value_name) ==
    MeltCols(df, YearCols(columns), value_name)

\* read_population / read_gdp_pc after pd.read_csv: melt, coerce, upper-case
ReadLong(df, columns, value_name) ==
    LET long == wide_to_long(df, columns, value_name)
    IN  [i \in 1..Len(long) |->
            (value_name :> ToNumeric(long[i][value_name])) @@
            [iso3 |-> Upper(long[i].iso3), year |-> long[i].year]]

make_years(p) == SortedSeq({p[i].year : i \in DOMAIN p})

\* year_index.get(y): the position of y in years, 0 for None
YearIndexGet(ys, y) ==
    IF \E i \in DOMAIN ys : ys[i] = y
    THEN CHOOSE i \in DOMAIN ys : ys[i] = y /\ \A j \in DOMAIN ys : ys[j] = y => j <= i
    ELSE 0

\* StoreRow without the pd.isna test: a NaN is stored as it stands
StoreRow_KeepNaN(arr, row, ys, value_col) ==
    LET i == YearIndexGet(ys, row.year)
    IN  IF i # 0 THEN [arr EXCEPT ![i] = row[value_col]] ELSE arr

\* the body of the inner loop: one row stored into arr
StoreRow(arr, row, ys, value_col) ==
    LET i == YearIndexGet(ys, row.year)
        v == IF IsNa(row[value_col]) THEN Num(0) ELSE row[value_col]
    IN  IF i # 0 THEN [arr EXCEPT ![i] = v] ELSE arr

RECURSIVE FillArr(_, _, _, _)
\* the inner loop over a group's rows, in table order
FillArr(arr, rows, ys, value_col) ==
    IF rows = <<>> THEN arr
    ELSE FillArr(StoreRow(arr, Head(rows), ys, value_col), Tail(rows), ys, value_col)

ZeroArr(ys) == [i \in 1..Len(ys) |-> Num(0)]

build_iso3_series(df_long, ys, value_col) ==
    LET groups == {df_long[i].iso3 : i \in DOMAIN df_long}
        sub(g) == SelectSeq(df_long, LAMBDA r : r.iso3 = g)
    IN  [k \in {Upper(g) : g \in groups} |->
            FillArr(ZeroArr(ys), sub(CHOOSE g \in groups : Upper(g) = k), ys, value_col)]

(***************************************************************************)
(* Strings of the language dataset.  A language cell is a sequence of      *)
(* one-character strings; a country name is a string of a small registry.  *)
(***************************************************************************)
\* what pandas holds for an empty CSV cell
CsvNaN == <<"<NaN>">>

\* str(cell): the text of a cell, "nan" for an empty one
StrOf(cell) == IF cell = CsvNaN THEN <<"n", "a", "n">> ELSE cell

RECURSIVE LStrip(_)
LStrip(s) == IF s # <<>> /\ Head(s) = " " THEN LStrip(Tail(s)) ELSE s

RECURSIVE RStrip(_)
RStrip(s) ==
    IF s # <<>> /\ s[Len(s)] = " " THEN RStrip(SubSeq(s, 1, Len(s) - 1)) ELSE s

\* str.strip()
Strip(s) == RStrip(LStrip(s))

RECURSIVE ReplaceAll(_, _, _)
\* str.replace(pat, rep): every non-overlapping occurrence, left to right
ReplaceAll(s, pat, rep) ==
    IF Len(s) < Len(pat) THEN s
    ELSE IF SubSeq(s, 1, Len(pat)) = pat
         THEN rep \o ReplaceAll(SubSeq(s, Len(pat) + 1, Len(s)), pat, rep)
         ELSE <<Head(s)>> \o ReplaceAll(Tail(s), pat, rep)

\* the text before the first occurrence of character c (all of s if none)
Before(s, c) ==
    IF \E i \in DOMAIN s : s[i] = c
    THEN SubSeq(s, 1, (CHOOSE i \in DOMAIN s : s[i] = c /\ \A j \in 1..(i - 1) : s[j] # c) - 1)
    ELSE s

RECURSIVE Split(_, _)
\* str.split(c) for a one-character separator
Split(s, c) ==
    IF \E i \in DOMAIN s : s[i] = c
    THEN <<Before(s, c)>> \o Split(SubSeq(s, Len(Before(s, c)) + 2, Len(s)), c)
    ELSE <<s>>

LowerChar(c) ==
    CASE c = "A" -> "a"
      [] c = "B" -> "b"
      [] c = "N" -> "n"
      [] c = "D" -> "d"
      [] OTHER -> c

\* str.lower()
Lower(s) == [i \in 1..Len(s) |-> LowerChar(s[i])]

\* the separators parse_languages_cell turns into commas, in its order
Separators == << <<";">>, <<"/">>, <<"|">>, <<" ", "a", "n", "d", " ">> >>

RECURSIVE NormalizeSeparators(_, _)
NormalizeSeparators(s, seps) ==
    IF seps = <<>> THEN s
    ELSE NormalizeSeparators(ReplaceAll(s, Head(seps), <<",">>), Tail(seps))

RECURSIVE CleanParts(_)
\* the loop building clean: empty parts dropped, annotations cut, stripped
CleanParts(parts) ==
    IF parts = <<>> THEN <<>>
    ELSE LET p == Head(parts)
             q == Strip(Before(p, "("))
         IN  IF p = <<>> \/ q = <<>> THEN CleanParts(Tail(parts))
             ELSE <<q>> \o CleanParts(Tail(parts))

RECURSIVE Dedup_ExactCase(_, _)
\* Dedup keyed on the entry itself: `key = lang`
Dedup_ExactCase(clean, seenKeys) ==
    IF clean = <<>> THEN <<>>
    ELSE IF Head(clean) \in seenKeys THEN Dedup_ExactCase(Tail(clean), seenKeys)
         ELSE <<Head(clean)>> \o Dedup_ExactCase(Tail(clean), seenKeys \cup {Head(clean)})

RECURSIVE Dedup(_, _)
\* the loop building out: first occurrence of each lower-cased key
Dedup(clean, seenKeys) ==
    IF clean = <<>> THEN <<>>
    ELSE IF Lower(Head(clean)) \in seenKeys THEN Dedup(Tail(clean), seenKeys)
         ELSE <<Head(clean)>> \o Dedup(Tail(clean), seenKeys \cup {Lower(Head(clean))})

parse_languages_cell(cell) ==
    LET s == Strip(cell)
    IN  IF s = <<>> THEN <<>>
        ELSE LET t == NormalizeSeparators(s, Separators)
                 raw == Split(t, ",")
                 parts == [i \in 1..Len(raw) |-> Strip(raw[i])]
             IN  Dedup(CleanParts(parts), {})

\* to_iso3's None
None == "<None>"

\* str(country) of an empty cell, and str.strip() on the names in use
StripName(name) ==
    CASE name = " France " -> "France"
      [] name = "South Korea " -> "South Korea"
      [] OTHER -> name

\* the alias table (the entries for the names in use)
patches(name) ==
    CASE name = "South Korea" -> "Korea, Republic of"
      [] name = "Russia" -> "Russian Federation"
      [] OTHER -> name

\* pycountry.countries.lookup: case-insensitive on names and codes; None
\* stands for its LookupError
Lookup(name) ==
    CASE name \in {"Korea, Republic of", "KOR", "kor"} -> "KOR"
      [] name \in {"France", "france", "FRA", "fra"} -> "FRA"
      [] name \in {"Russian Federation", "RUS"} -> "RUS"
      [] OTHER -> None

to_iso3(country_name) == Lookup(patches(StripName(country_name)))

(***************************************************************************)
(* The language list: sorted(all_langs_set, key=str.lower).                *)
(***************************************************************************)
\* code-point order of the characters in use
CharOrd(c) ==
    CASE c = " " -> 32
      [] c = "(" -> 40
      [] c = ")" -> 41
      [] c = "A" -> 65
      [] c = "B" -> 66
      [] c = "D" -> 68
      [] c = "N" -> 78
      [] c = "a" -> 97
      [] c = "b" -> 98
      [] c = "d" -> 100
      [] c = "n" -> 110
      [] c = "x" -> 120
      [] OTHER -> 0

RECURSIVE StrLess(_, _)
\* a < b for Python strings
StrLess(a, b) ==
    IF b = <<>> THEN FALSE
    ELSE IF a = <<>> THEN TRUE
    ELSE IF CharOrd(Head(a)) # CharOrd(Head(b)) THEN CharOrd(Head(a)) < CharOrd(Head(b))
    ELSE StrLess(Tail(a), Tail(b))

RECURSIVE Orderings(_)
\* every sequence listing each element of S once
Orderings(S) ==
    IF S = {} THEN {<<>>}
    ELSE UNION {{<<x>> \o q : q \in Orderings(S \ {x})} : x \in S}

\* the results sorted() can give for a set: ascending by lower-cased key,
\* entries with equal keys in the set's (unspecified) iteration order
SortedByLower(S) ==
    {q \in Orderings(S) :
        \A i, j \in DOMAIN q : i < j => ~StrLess(Lower(q[j]), Lower(q[i]))}

(***************************************************************************)
(* The border collection, its JSON text, and the annotation.               *)
(***************************************************************************)
\* dict.get(k, default)
Get(d, k, default) == IF k \in DOMAIN d THEN d[k] ELSE default

\* an empty dict
EmptyDict == <<>>

\* key order of the property bags that the remote source serves
PropKeyOrder == <<"ADM0_A3", "NAME">>

RECURSIVE DumpProps(_, _)
DumpProps(props, keys) ==
    IF keys = <<>> THEN <<>>
    ELSE (IF Head(keys) \in DOMAIN props THEN <<Head(keys), props[Head(keys)]>> ELSE <<>>)
         \o DumpProps(props, Tail(keys))

DumpFeature(f) ==
    <<"{">>
    \o (IF "properties" \in DOMAIN f
        THEN <<"properties", "{">> \o DumpProps(f["properties"], PropKeyOrder) \o <<"}">>
        ELSE <<>>)
    \o <<"}">>

RECURSIVE DumpFeatures(_)
DumpFeatures(fs) ==
    IF fs = <<>> THEN <<>> ELSE DumpFeature(Head(fs)) \o DumpFeatures(Tail(fs))

\* json.dumps of a border collection: its token text
Dumps(col) == <<"{", "features", "[">> \o DumpFeatures(col.features) \o <<"]", "}">>

RECURSIVE ParseProps(_, _)
ParseProps(toks, acc) ==
    IF Head(toks) = "}" THEN [val |-> acc, rest |-> Tail(toks)]
    ELSE ParseProps(SubSeq(toks, 3, Len(toks)), (toks[1] :> toks[2]) @@ acc)

ParseFeature(toks) ==
    IF toks[2] = "properties"
    THEN LET pp == ParseProps(SubSeq(toks, 4, Len(toks)), EmptyDict)
         IN  [val |-> ("properties" :> pp.val), rest |-> Tail(pp.rest)]
    ELSE [val |-> EmptyDict, rest |-> SubSeq(toks, 3, Len(toks))]

RECURSIVE ParseFeatures(_, _)
ParseFeatures(toks, acc) ==
    IF Head(toks) = "]" THEN acc
    ELSE LET pf == ParseFeature(toks)
         IN  ParseFeatures(pf.rest, Append(acc, pf.val))

\* json.loads of a token text written by Dumps
Loads(text) == [features |-> ParseFeatures(SubSeq(text, 4, Len(text)), <<>>)]

\* the four keys attach_all_properties sets
AttachedKeys == {"pop", "gdp", "continent", "langs"}

\* AttachFeature that leaves a feature without a join key as it is
AttachFeature_SkipUncoded(f, ys, pops, gdps, cmap, lmap) ==
    LET props == Get(f, "properties", EmptyDict)
        iso3 == Upper(Get(props, "ADM0_A3", ""))
        set == [k \in AttachedKeys |->
                  CASE k = "pop" -> Get(pops, iso3, ZeroArr(ys))
                    [] k = "gdp" -> Get(gdps, iso3, ZeroArr(ys))
                    [] k = "continent" -> Get(cmap, iso3, "Unknown")
                    [] k = "langs" -> Get(lmap, iso3, <<>>)]
    IN  IF iso3 = "" THEN f ELSE ("properties" :> (set @@ props)) @@ f

\* the body of attach_all_properties' loop, for one feature
AttachFeature(f, ys, pops, gdps, cmap, lmap) ==
    LET props == Get(f, "properties", EmptyDict)
        iso3 == Upper(Get(props, "ADM0_A3", ""))
        set == [k \in AttachedKeys |->
                  CASE k = "pop" -> Get(pops, iso3, ZeroArr(ys))
                    [] k = "gdp" -> Get(gdps, iso3, ZeroArr(ys))
                    [] k = "continent" -> Get(cmap, iso3, "Unknown")
                    [] k = "langs" -> Get(lmap, iso3, <<>>)]
    IN  ("properties" :> (set @@ props)) @@ f

\* the collection as attach_all_properties leaves it
AttachAll(col, ys, pops, gdps, cmap, lmap) ==
    [col EXCEPT !.features =
        [i \in 1..Len(col.features) |->
            AttachFeature(col.features[i], ys, pops, gdps, cmap, lmap)]]

\* the reference attach_all_properties returns, given the one it was passed
\* and the first free one: it returns its argument
AttachResult(arg, free) == arg

\* AttachTarget of a copying annotation: the annotations go to a new object
AttachTarget_Copy(arg, free) == free

\* the object attach_all_properties writes the annotations to
AttachTarget(arg, free) == arg

(***************************************************************************)
(* The files, and the inputs tried.                                        *)
(***************************************************************************)
InputFiles == {"POP_CSV", "GDP_CSV", "CONTINENTS_CSV", "COUNTRY_LANG_CSV"}

\* a file that does not exist, and a file holding content
Absent == <<>>
FileOf(content) == <<content>>

\* require_file that never raises
FileExists_Always(path) == TRUE

\* require_file(path) passes
FileExists(path) == path \in exists

MaxRuns == 2
MaxLangRows == 2

PopWideExamples ==
    { <<>>,
      << [code |-> "usa", cells |-> ("2023" :> "7" @@ "2022" :> "n/a")] >> }

GdpWideExamples ==
    { <<>>,
      << [code |-> "USA", cells |-> ("2023" :> "5" @@ "2024" :> "7")] >>,
      << [code |-> "usa", cells |-> ("2023" :> "n/a" @@ "2024" :> "7")] >>,
      << [code |-> "FRA", cells |-> ("2023" :> "7" @@ "2024" :> "n/a")],
         [code |-> "FRA", cells |-> ("2023" :> "n/a" @@ "2024" :> "5")] >>,
      << [code |-> "USA", cells |-> ("2023" :> "7" @@ "2024" :> "5")],
         [code |-> "FRA", cells |-> ("2023" :> "5" @@ "2024" :> "5")] >> }

ContExamples ==
    { <<>>,
      << [alpha3 |-> "USA", region |-> "Americas"],
         [alpha3 |-> "kor", region |-> "Asia"] >> }

\* rows of the language dataset: country cell, language cell
LangRows ==
    { [country |-> "South Korea ", langs |-> <<"a", ",", " ", "A", ";", "b">>],
      [country |-> "fra", langs |-> <<"b", " ", "(", "x", ")", " ", "a", "n", "d", " ", "B">>],
      [country |-> " France ", langs |-> <<"a", "/", "n">>],
      [country |-> "Atlantis", langs |-> <<"d", "|", "a">>],
      [country |-> "<NaN>", langs |-> <<"a">>],
      [country |-> "Russia", langs |-> CsvNaN],
      [country |-> "KOR", langs |-> <<" ", ",", "(", "b", ")">>] }

\* str(country): the text of a country cell, "nan" for an empty one
StrName(cell) == IF cell = "<NaN>" THEN "nan" ELSE cell

LangCsvExamples ==
    { <<>>,
      << [country |-> "Atlantis", langs |-> <<"d", "|", "a">>],
         [country |-> "South Korea ", langs |-> <<"a", ",", " ", "A", ";", "b">>] >> }

\* border collections the remote source may serve
Geos ==
    { [features |-> <<>>],
      [features |-> << ("properties" :> ("ADM0_A3" :> "usa" @@ "NAME" :> "United States")),
                       ("properties" :> ("ADM0_A3" :> "KOR")),
                       ("properties" :> ("NAME" :> "Nowhere")),
                       EmptyDict >>],
      [features |-> << ("properties" :> ("ADM0_A3" :> "ZZZ" @@ "NAME" :> "Zed")) >>] }

(***************************************************************************)
(* main(): one action per step, in the order of lines 815-842.             *)
(***************************************************************************)
\* no document is open
ViewerIdle ==
    /\ GEOJSON = <<>>
    /\ state = <<>>
    /\ loaded = FALSE
    /\ atLoad = <<>>
    /\ lastEvent = "none"

\* main()'s local variables before its first statement
LocalsInit ==
    /\ pop = <<>>
    /\ gdp = <<>>
    /\ cont = <<>>
    /\ years = <<>>
    /\ pop_series = EmptyDict
    /\ gdp_series = EmptyDict
    /\ continent_map = EmptyDict
    /\ li = 0
    /\ iso3_to_langs = EmptyDict
    /\ all_langs_set = {}
    /\ bad_rows = 0
    /\ all_languages = <<>>
    /\ heap = EmptyDict
    /\ geojson = 0
    /\ seen = {}
    /\ fetches = 0
    /\ writes = 0

\* an uncaught exception: the process exits
Raise ==
    /\ pc' = "failed"
    /\ UNCHANGED <<viewVars, fsVars, cache, out_file, tabVars, langVars, geoVars, histVars>>

StartRun ==
    /\ pc \in {"idle", "done", "failed"}
    /\ runs < MaxRuns
    /\ pc' = "read_population"
    /\ pop' = <<>>
    /\ gdp' = <<>>
    /\ cont' = <<>>
    /\ years' = <<>>
    /\ pop_series' = EmptyDict
    /\ gdp_series' = EmptyDict
    /\ continent_map' = EmptyDict
    /\ li' = 0
    /\ iso3_to_langs' = EmptyDict
    /\ all_langs_set' = {}
    /\ bad_rows' = 0
    /\ all_languages' = <<>>
    /\ heap' = EmptyDict
    /\ geojson' = 0
    /\ seen' = {}
    /\ fetches' = 0
    /\ writes' = 0
    /\ runs' = runs + 1
    /\ UNCHANGED <<viewVars, fsVars, cache, out_file>>

ReadPopulation ==
    /\ pc = "read_population"
    /\ IF FileExists("POP_CSV")
       THEN /\ pop' = ReadLong(pop_wide, PopColumns, "population")
            /\ seen' = seen \cup {"POP_CSV"}
            /\ pc' = "read_gdp_pc"
            /\ UNCHANGED <<viewVars, fsVars, cache, out_file, gdp, cont, years, pop_series,
                           gdp_series, continent_map, langVars, geoVars,
                           fetches, writes, runs>>
       ELSE Raise

ReadGdpPc ==
    /\ pc = "read_gdp_pc"
    /\ IF FileExists("GDP_CSV")
       THEN /\ gdp' = ReadLong(gdp_wide, GdpColumns, "gdp_pc")
            /\ seen' = seen \cup {"GDP_CSV"}
            /\ pc' = "read_continents"
            /\ UNCHANGED <<viewVars, fsVars, cache, out_file, pop, cont, years, pop_series,
                           gdp_series, continent_map, langVars, geoVars,
                           fetches, writes, runs>>
       ELSE Raise

ReadContinents ==
    /\ pc = "read_continents"
    /\ IF FileExists("CONTINENTS_CSV")
       THEN /\ cont' = [i \in 1..Len(cont_csv) |->
                          [iso3 |-> Upper(cont_csv[i].alpha3),
                           continent |-> cont_csv[i].region]]
            /\ seen' = seen \cup {"CONTINENTS_CSV"}
            /\ pc' = "make_years"
            /\ UNCHANGED <<viewVars, fsVars, cache, out_file, pop, gdp, years, pop_series,
                           gdp_series, continent_map, langVars, geoVars,
                           fetches, writes, runs>>
       ELSE Raise

MakeYears ==
    /\ pc = "make_years"
    /\ years' = make_years(pop)
    /\ pc' = "pop_series"
    /\ UNCHANGED <<viewVars, fsVars, cache, out_file, pop, gdp, cont, pop_series, gdp_series,
                   continent_map, langVars, geoVars, histVars>>

BuildPopSeries ==
    /\ pc = "pop_series"
    /\ pop_series' = build_iso3_series(pop, years, "population")
    /\ pc' = "filter_gdp"
    /\ UNCHANGED <<viewVars, fsVars, cache, out_file, pop, gdp, cont, years, gdp_series,
                   continent_map, langVars, geoVars, histVars>>

FilterGdp ==
    /\ pc = "filter_gdp"
    /\ gdp' = SelectSeq(gdp, LAMBDA r : r.year \in Range(years))
    /\ pc' = "gdp_series"
    /\ UNCHANGED <<viewVars, fsVars, cache, out_file, pop, cont, years, pop_series, gdp_series,
                   continent_map, langVars, geoVars, histVars>>

BuildGdpSeries ==
    /\ pc = "gdp_series"
    /\ gdp_series' = build_iso3_series(gdp, years, "gdp_pc")
    /\ pc' = "continent_map"
    /\ UNCHANGED <<viewVars, fsVars, cache, out_file, pop, gdp, cont, years, pop_series,
                   continent_map, langVars, geoVars, histVars>>

\* the two dict comprehensions: the last row of a code decides
BuildContinentMap ==
    /\ pc = "continent_map"
    /\ continent_map' =
          [k \in {Upper(cont[i].iso3) : i \in DOMAIN cont} |->
              LET rows == {i \in DOMAIN cont : Upper(cont[i].iso3) = k}
              IN  cont[CHOOSE i \in rows : \A j \in rows : j <= i].continent]
    /\ pc' = "read_country_languages"
    /\ UNCHANGED <<viewVars, fsVars, cache, out_file, pop, gdp, cont, years, pop_series,
                   gdp_series, langVars, geoVars, histVars>>

\* read_country_languages up to its loop: the file check and the empty maps
ReadCountryLanguages ==
    /\ pc = "read_country_languages"
    /\ IF FileExists("COUNTRY_LANG_CSV")
       THEN /\ li' = 0
            /\ iso3_to_langs' = EmptyDict
            /\ all_langs_set' = {}
            /\ bad_rows' = 0
            /\ seen' = seen \cup {"COUNTRY_LANG_CSV"}
            /\ pc' = "lang_loop"
            /\ UNCHANGED <<viewVars, fsVars, cache, out_file, tabVars, all_languages, geoVars,
                           fetches, writes, runs>>
       ELSE Raise

\* `if not iso3`
NotIso3(iso3) == iso3 = None \/ iso3 = ""

\* LangRow with `break` for `continue`: an unresolved row ends the loop
LangRow_Halts ==
    /\ pc = "lang_loop"
    /\ li < Len(lang_csv)
    /\ LET r == lang_csv[li + 1]
           iso3 == to_iso3(StrName(r.country))
           langs == parse_languages_cell(StrOf(r.langs))
       IN  IF NotIso3(iso3)
           THEN /\ bad_rows' = bad_rows + 1
                /\ li' = Len(lang_csv)
                /\ UNCHANGED <<iso3_to_langs, all_langs_set>>
           ELSE IF langs = <<>>
           THEN /\ li' = li + 1
                /\ UNCHANGED <<bad_rows, iso3_to_langs, all_langs_set>>
           ELSE /\ iso3_to_langs' = (iso3 :> langs) @@ iso3_to_langs
                /\ all_langs_set' = all_langs_set \cup {Strip(langs[i]) : i \in DOMAIN langs}
                /\ li' = li + 1
                /\ UNCHANGED bad_rows
    /\ UNCHANGED <<viewVars, fsVars, cache, out_file, pc, tabVars, all_languages, geoVars, histVars>>

\* one iteration of the loop over df.iterrows()
LangRow ==
    /\ pc = "lang_loop"
    /\ li < Len(lang_csv)
    /\ LET r == lang_csv[li + 1]
           iso3 == to_iso3(StrName(r.country))
           langs == parse_languages_cell(StrOf(r.langs))
       IN  IF NotIso3(iso3)
           THEN /\ bad_rows' = bad_rows + 1
                /\ UNCHANGED <<iso3_to_langs, all_langs_set>>
           ELSE IF langs = <<>>
           THEN UNCHANGED <<bad_rows, iso3_to_langs, all_langs_set>>
           ELSE /\ iso3_to_langs' = (iso3 :> langs) @@ iso3_to_langs
                /\ all_langs_set' = all_langs_set \cup {Strip(langs[i]) : i \in DOMAIN langs}
                /\ UNCHANGED bad_rows
    /\ li' = li + 1
    /\ UNCHANGED <<viewVars, fsVars, cache, out_file, pc, tabVars, all_languages, geoVars, histVars>>

\* the end of read_country_languages: the loop is exhausted, the list is sorted
LangFinish ==
    /\ pc = "lang_loop"
    /\ li = Len(lang_csv)
    /\ all_languages' \in SortedByLower(all_langs_set)
    /\ pc' = "download_geojson"
    /\ UNCHANGED <<viewVars, fsVars, cache, out_file, tabVars, li, iso3_to_langs, all_langs_set,
                   bad_rows, geoVars, histVars>>

\* the first free reference
FreeRef == Cardinality(DOMAIN heap) + 1

\* GEOJSON_CACHE.exists(), always false: the cache is never looked at
CacheExists_Never == FALSE

\* GEOJSON_CACHE.exists()
CacheExists == cache # Absent

\* download_geojson: the cache exists
DownloadCached ==
    /\ pc = "download_geojson"
    /\ CacheExists
    /\ heap' = (FreeRef :> Loads(cache[1])) @@ heap
    /\ geojson' = FreeRef
    /\ pc' = "attach"
    /\ UNCHANGED <<viewVars, fsVars, cache, out_file, tabVars, langVars, histVars>>

\* download_geojson: no cache, and requests.get, raise_for_status and r.json()
\* succeed, giving collection g
DownloadFetched ==
    /\ pc = "download_geojson"
    /\ ~CacheExists
    /\ \E g \in Geos :
          /\ cache' = FileOf(Dumps(g))
          /\ heap' = (FreeRef :> g) @@ heap
    /\ geojson' = FreeRef
    /\ fetches' = fetches + 1
    /\ pc' = "attach"
    /\ UNCHANGED <<viewVars, fsVars, out_file, tabVars, langVars, seen, writes, runs>>

\* download_geojson: no cache, and requests.get, raise_for_status or r.json()
\* raises
DownloadFailed ==
    /\ pc = "download_geojson"
    /\ ~CacheExists
    /\ fetches' = fetches + 1
    /\ pc' = "failed"
    /\ UNCHANGED <<viewVars, fsVars, cache, out_file, tabVars, langVars, geoVars, seen, writes, runs>>

DownloadGeojson ==
    \/ DownloadCached
    \/ DownloadFetched
    \/ DownloadFailed

\* geojson = attach_all_properties(geojson=geojson, ...)
Attach ==
    /\ pc = "attach"
    /\ heap' = (AttachTarget(geojson, FreeRef) :>
                   AttachAll(heap[geojson], years, pop_series, gdp_series,
                             continent_map, iso3_to_langs)) @@ heap
    /\ geojson' = AttachResult(geojson, FreeRef)
    /\ pc' = "write_html"
    /\ UNCHANGED <<viewVars, fsVars, cache, out_file, tabVars, langVars, histVars>>

\* write_html: the document embeds the collection, the years and the languages
WriteHtml ==
    /\ pc = "write_html"
    /\ out_file' = FileOf([GEOJSON |-> heap[geojson], YEARS |-> years,
                           ALL_LANGS |-> all_languages])
    /\ writes' = writes + 1
    /\ pc' = "done"
    /\ UNCHANGED <<viewVars, fsVars, cache, tabVars, langVars, geoVars, seen, fetches, runs>>

\* between runs, an input file is removed or put back
InputRemoved ==
    /\ pc \in {"idle", "done", "failed"}
    /\ \E f \in exists : exists' = exists \ {f}
    /\ UNCHANGED <<viewVars, pop_wide, gdp_wide, cont_csv, lang_csv, cache, out_file, pc,
                   tabVars, langVars, geoVars, histVars>>

InputRestored ==
    /\ pc \in {"idle", "done", "failed"}
    /\ \E f \in InputFiles \ exists : exists' = exists \cup {f}
    /\ UNCHANGED <<viewVars, pop_wide, gdp_wide, cont_csv, lang_csv, cache, out_file, pc,
                   tabVars, langVars, geoVars, histVars>>

(***************************************************************************)
(* Specifications.                                                         *)
(***************************************************************************)
\* the tabular part of one run, over every population table of the bound
SeriesInit ==
    /\ exists = InputFiles
    /\ pop_wide \in WideTables(PopColumns)
    /\ gdp_wide \in GdpWideExamples
    /\ cont_csv = <<>>
    /\ lang_csv = <<>>
    /\ cache = Absent
    /\ out_file = Absent
    /\ pc = "read_population"
    /\ LocalsInit
    /\ runs = 1
    /\ ViewerIdle

SeriesNext ==
    \/ ReadPopulation
    \/ ReadGdpPc
    \/ ReadContinents
    \/ MakeYears
    \/ BuildPopSeries
    \/ FilterGdp
    \/ BuildGdpSeries

SpecSeries == SeriesInit /\ [][SeriesNext]_vars

\* read_country_languages, over every language dataset of the bound
LangInit ==
    /\ exists = InputFiles
    /\ pop_wide = <<>>
    /\ gdp_wide = <<>>
    /\ cont_csv = <<>>
    /\ lang_csv \in SeqsUpTo(LangRows, MaxLangRows)
    /\ cache = Absent
    /\ out_file = Absent
    /\ pc = "read_country_languages"
    /\ LocalsInit
    /\ runs = 1
    /\ ViewerIdle

LangNext ==
    \/ ReadCountryLanguages
    \/ LangRow
    \/ LangFinish

SpecLang == LangInit /\ [][LangNext]_vars

\* whole runs, one after another, over the example inputs
RunInit ==
    /\ exists \in SUBSET InputFiles
    /\ pop_wide \in PopWideExamples
    /\ gdp_wide = << [code |-> "USA", cells |-> ("2023" :> "5" @@ "2024" :> "7")] >>
    /\ cont_csv \in ContExamples
    /\ lang_csv \in LangCsvExamples
    /\ cache \in {Absent} \cup {FileOf(Dumps(g)) : g \in Geos}
    /\ out_file = Absent
    /\ pc = "idle"
    /\ LocalsInit
    /\ runs = 0
    /\ ViewerIdle

RunNext ==
    \/ StartRun
    \/ ReadPopulation
    \/ ReadGdpPc
    \/ ReadContinents
    \/ MakeYears
    \/ BuildPopSeries
    \/ FilterGdp
    \/ BuildGdpSeries
    \/ BuildContinentMap
    \/ ReadCountryLanguages
    \/ LangRow
    \/ LangFinish
    \/ DownloadGeojson
    \/ Attach
    \/ WriteHtml
    \/ InputRemoved
    \/ InputRestored

Spec == RunInit /\ [][RunNext]_vars

(***************************************************************************)
(* Properties of build_iso3_series.                                        *)
(***************************************************************************)
\* the rows of a table for one (iso3, year) pair
RowsFor(table, k, y) == {j \in DOMAIN table : table[j].iso3 = k /\ table[j].year = y}

\* series is what the claim says of table: one array per code of the table,
\* as long as the year list, entry i being the table's value for years[i]
\* (of its last row, should the pair be repeated), 0.0 when the pair is
\* missing or its value is NaN, and never NaN
SeriesMatches(table, ys, value_col, series) ==
    /\ DOMAIN series = {table[j].iso3 : j \in DOMAIN table}
    /\ \A k \in DOMAIN series :
          /\ Len(series[k]) = Len(ys)
          /\ \A i \in 1..Len(ys) :
                LET rows == RowsFor(table, k, ys[i])
                    last == CHOOSE j \in rows : \A h \in rows : h <= j
                IN  /\ ~IsNa(series[k][i])
                    /\ IF rows = {} \/ IsNa(table[last][value_col])
                       THEN series[k][i] = Num(0)
                       ELSE series[k][i] = table[last][value_col]

\* C1: for every country code of a long-form metric table, build_iso3_series
\* yields an array of the length of the year list whose entry i is the
\* table's value for years[i]; a pair that is missing, or whose value is
\* NaN, holds exactly 0.0, and no entry is NaN.
C1_SeriesAligned ==
    /\ pc \in {"filter_gdp", "gdp_series", "continent_map"}
          => SeriesMatches(pop, years, "population", pop_series)
    /\ pc = "continent_map" => SeriesMatches(gdp, years, "gdp_pc", gdp_series)

\* C1 witness: a finished run in which a population value is NaN (stored as
\* 0.0), a GDP pair is missing (2022 stands in no GDP column) and a GDP
\* value is present
C1_Witness ==
    /\ pc = "continent_map"
    /\ Len(years) = 2
    /\ \E j \in DOMAIN pop : IsNa(pop[j].population)
    /\ \E k \in DOMAIN gdp_series :
          /\ RowsFor(gdp, k, years[1]) = {}
          /\ gdp_series[k][1] = Num(0)
          /\ gdp_series[k][2] = Num(5)

(***************************************************************************)
(* Properties of attach_all_properties.                                    *)
(***************************************************************************)
\* the step of main() that calls attach_all_properties
AttachStep == pc = "attach" /\ pc' = "write_html"

\* a feature's join key as the annotation reads it
CodeOf(f) == Upper(Get(Get(f, "properties", EmptyDict), "ADM0_A3", ""))

\* C2: after attach_all_properties every feature of the border collection is
\* still there, in its place (none omitted or added), and carries the four
\* keys pop, gdp, continent and langs; a feature whose code is absent from a
\* source has that source's default: an all-0.0 array as long as the year
\* list for pop and gdp, "Unknown" for continent, an empty list for langs.
C2_AllFeaturesAnnotated ==
    [][AttachStep =>
        LET before == heap[geojson].features
            after == heap'[geojson'].features
        IN  /\ Len(after) = Len(before)
            /\ \A i \in DOMAIN before :
                  LET code == CodeOf(before[i])
                      p == after[i]["properties"]
                  IN  /\ "properties" \in DOMAIN after[i]
                      /\ CodeOf(after[i]) = code
                      /\ AttachedKeys \subseteq DOMAIN p
                      /\ code \notin DOMAIN pop_series =>
                            /\ Len(p["pop"]) = Len(years)
                            /\ \A y \in DOMAIN p["pop"] : p["pop"][y] = Num(0)
                      /\ code \notin DOMAIN gdp_series =>
                            /\ Len(p["gdp"]) = Len(years)
                            /\ \A y \in DOMAIN p["gdp"] : p["gdp"][y] = Num(0)
                      /\ code \notin DOMAIN continent_map => p["continent"] = "Unknown"
                      /\ code \notin DOMAIN iso3_to_langs => p["langs"] = <<>>]_vars

\* C2 witness: an annotated collection of several features, one of them with
\* no property bag at all and one whose code every source knows
C2_Witness ==
    /\ pc = "write_html"
    /\ Len(years) = 2
    /\ \E i, j \in DOMAIN heap[geojson].features :
          LET f == heap[geojson].features[i]
              g == heap[geojson].features[j]
          IN  /\ CodeOf(f) = ""
              /\ f["properties"]["pop"] = <<Num(0), Num(0)>>
              /\ f["properties"]["continent"] = "Unknown"
              /\ CodeOf(g) = "USA"
              /\ "USA" \in DOMAIN pop_series
              /\ "USA" \in DOMAIN continent_map
              /\ g["properties"]["continent"] = "Americas"

\* C7 as stated: the collection passed to attach_all_properties is left
\* unchanged by the call
C7_InputUnchanged ==
    [][AttachStep => heap'[geojson] = heap[geojson]]_vars

\* C7 amended: attach_all_properties annotates the collection it is passed in
\* place and returns that same collection: no other collection comes to
\* exist, every feature keeps its place and its other properties, and only
\* the four annotation keys (and a missing property bag) are added.
C7_AnnotatedInPlace ==
    [][AttachStep =>
        /\ geojson' = geojson
        /\ DOMAIN heap' = DOMAIN heap
        /\ Len(heap'[geojson].features) = Len(heap[geojson].features)
        /\ \A i \in DOMAIN heap[geojson].features :
              LET f == heap[geojson].features[i]
                  g == heap'[geojson].features[i]
                  fp == Get(f, "properties", EmptyDict)
              IN  /\ DOMAIN g = DOMAIN f \cup {"properties"}
                  /\ DOMAIN g["properties"] = DOMAIN fp \cup AttachedKeys
                  /\ \A k \in DOMAIN fp \ AttachedKeys : g["properties"][k] = fp[k]
                  /\ \A k \in DOMAIN f \ {"properties"} : g[k] = f[k]]_vars

\* C7 witness: the call has returned, and the collection it was passed (the
\* only one of the run) carries the annotations
C7_Witness ==
    /\ pc = "write_html"
    /\ DOMAIN heap = {geojson}
    /\ Len(heap[geojson].features) > 1
    /\ \A i \in DOMAIN heap[geojson].features :
          AttachedKeys \subseteq DOMAIN heap[geojson].features[i]["properties"]

(***************************************************************************)
(* Properties of main() and of the border cache.                           *)
(***************************************************************************)
\* the input file a step requires, for the steps that require one
Required(step) ==
    CASE step = "read_population" -> "POP_CSV"
      [] step = "read_gdp_pc" -> "GDP_CSV"
      [] step = "read_continents" -> "CONTINENTS_CSV"
      [] step = "read_country_languages" -> "COUNTRY_LANG_CSV"

RequireSteps ==
    {"read_population", "read_gdp_pc", "read_continents", "read_country_languages"}

\* C4: the output file is written only by a run that found all four input
\* files and obtained the border geometry, once, as its last step; a missing
\* input file or a failed fetch with no cache stops the run at that step
\* with the output file untouched, and nothing of the run executes after it.
C4_OutputOnlyOnSuccess ==
    [][/\ (out_file' # out_file \/ writes' = writes + 1) =>
              /\ pc = "write_html" /\ pc' = "done"
              /\ seen = InputFiles
              /\ geojson # 0
              /\ writes = 0 /\ writes' = 1
       /\ (pc \in RequireSteps /\ Required(pc) \notin exists) =>
              /\ pc' = "failed" /\ out_file' = out_file
       /\ (pc = "download_geojson" /\ cache = Absent /\ cache' = Absent) =>
              /\ pc' = "failed" /\ out_file' = out_file /\ geojson' = 0
       /\ pc = "failed" =>
              /\ pc' \in {"failed", "read_population"}
              /\ out_file' = out_file /\ cache' = cache
              /\ pc' = "failed" => UNCHANGED <<tabVars, langVars, geoVars, writes, fetches>>
       /\ pc' = "done" => (pc \in {"write_html", "done"} /\ writes' = 1)]_vars

\* C4 witness: a second run stopped at the missing continents file, after a
\* first run wrote the output file, which is still there
C4_Witness ==
    /\ runs = 2
    /\ pc = "failed"
    /\ seen = {"POP_CSV", "GDP_CSV"}
    /\ "CONTINENTS_CSV" \notin exists
    /\ writes = 0
    /\ out_file # Absent

\* C5: the cache is write-once, read-thereafter: with the cache present
\* download_geojson fetches nothing, writes nothing and returns the cached
\* content; the cache is written only when it was absent and the fetch
\* succeeded, and then holds what was fetched; a failed fetch leaves it
\* absent; and an existing cache is never changed by any step of any run.
C5_CacheWriteOnce ==
    [][/\ cache # Absent => cache' = cache
       /\ (pc = "download_geojson" /\ cache # Absent) =>
              /\ fetches' = fetches
              /\ pc' = "attach"
              /\ heap'[geojson'] = Loads(cache[1])
       /\ cache' # cache =>
              /\ pc = "download_geojson" /\ pc' = "attach"
              /\ fetches' = fetches + 1
              /\ cache' # Absent
              /\ heap'[geojson'] \in Geos
              /\ Loads(cache'[1]) = heap'[geojson']
       /\ (pc = "download_geojson" /\ pc' = "failed") =>
              /\ cache = Absent /\ cache' = Absent]_vars

\* C5 witness: after a first run that completed, a second run has read the
\* cache, fetched nothing and holds the cached collection
C5_Witness ==
    /\ runs = 2
    /\ pc = "write_html"
    /\ fetches = 0
    /\ cache # Absent
    /\ out_file # Absent
    /\ Len(Loads(cache[1]).features) > 1
    /\ out_file[1].GEOJSON = heap[geojson]

(***************************************************************************)
(* Properties of read_country_languages.                                   *)
(***************************************************************************)
\* row j of the dataset resolves to an ISO-3 code
Resolves(j) == ~NotIso3(to_iso3(StrName(lang_csv[j].country)))

\* the languages of row j
RowLangs(j) == parse_languages_cell(StrOf(lang_csv[j].langs))

\* C6: an unresolvable row never halts read_country_languages: the loop
\* visits every row, bad_rows counts the unresolved rows visited, the map
\* and the language set hold only what resolvable rows contributed, and
\* every resolvable row visited (before or after an unresolved one) is in.
C6_UnresolvedRowsSkipped ==
    pc \in {"lang_loop", "download_geojson"} =>
        LET visited == 1..li
            good == {j \in visited : Resolves(j)}
        IN  /\ pc = "download_geojson" => li = Len(lang_csv)
            /\ bad_rows = Cardinality(visited \ good)
            /\ DOMAIN iso3_to_langs =
                  {to_iso3(StrName(lang_csv[j].country)) : j \in {g \in good : RowLangs(g) # <<>>}}
            /\ all_langs_set = UNION {Range(RowLangs(j)) : j \in good}
            /\ \A j \in good : RowLangs(j) # <<>> =>
                  \E h \in good :
                      /\ h >= j
                      /\ lang_csv[h].country \in {lang_csv[j].country} \cup
                            {c \in {lang_csv[g].country : g \in good} :
                                to_iso3(StrName(c)) = to_iso3(StrName(lang_csv[j].country))}
                      /\ iso3_to_langs[to_iso3(StrName(lang_csv[j].country))] = RowLangs(h)

\* C6 witness: the loop is over, the first row was unresolvable and counted,
\* and the resolvable row after it is in the map and in the language set
C6_Witness ==
    /\ pc = "download_geojson"
    /\ Len(lang_csv) = 2
    /\ ~Resolves(1) /\ Resolves(2)
    /\ bad_rows = 1
    /\ DOMAIN iso3_to_langs = {"KOR"}
    /\ all_langs_set # {}

(***************************************************************************)
(* Properties of the language map and the language list.                   *)
(***************************************************************************)
\* the entries of a language cell in the order written: split at the
\* separators, trimmed, annotations cut, empty entries dropped
CellEntries(cell) ==
    LET s == Strip(cell)
        raw == Split(NormalizeSeparators(s, Separators), ",")
    IN  IF s = <<>> THEN <<>>
        ELSE CleanParts([i \in 1..Len(raw) |-> Strip(raw[i])])

\* the position in E of the first entry equal to x up to case
FirstAt(E, x) ==
    CHOOSE p \in DOMAIN E :
        /\ Lower(E[p]) = Lower(x)
        /\ \A q \in 1..(p - 1) : Lower(E[q]) # Lower(x)

\* L is the ordered set of the entries E
IsOrderedSetOf(L, E) ==
    /\ \A k \in DOMAIN L : L[k] # <<>>
    /\ \A k, h \in DOMAIN L : k # h => Lower(L[k]) # Lower(L[h])
    /\ \A k \in DOMAIN L :
          /\ \E p \in DOMAIN E : Lower(E[p]) = Lower(L[k])
          /\ L[k] = E[FirstAt(E, L[k])]
    /\ \A k, h \in DOMAIN L : k < h => FirstAt(E, L[k]) < FirstAt(E, L[h])
    /\ \A p \in DOMAIN E : \E k \in DOMAIN L : Lower(L[k]) = Lower(E[p])

C13_EveryLanguageHasACountry ==
    pc = "download_geojson" =>
        \A k \in DOMAIN all_languages :
            \E c \in DOMAIN iso3_to_langs :
                all_languages[k] \in Range(iso3_to_langs[c])

\* the case of C13: the dataset names one country in two rows, both with
\* languages, and read_country_languages has returned
C13_Witness ==
    /\ pc = "download_geojson"
    /\ \E j, h \in 1..li :
          /\ j < h
          /\ Resolves(j) /\ Resolves(h)
          /\ to_iso3(StrName(lang_csv[j].country)) = to_iso3(StrName(lang_csv[h].country))
          /\ RowLangs(j) # <<>> /\ RowLangs(h) # <<>>
          /\ RowLangs(j) # RowLangs(h)

(***************************************************************************)
(* The viewer: the script of the emitted document (lines 469-732).         *)
(*                                                                         *)
(* Numbers are fixed-point: a base-10 logarithm is held in units of        *)
(* 1/10000, a percentile bound in units of 1/1000000, a normalised height  *)
(* t, the contrast power and maxalt in hundredths, an altitude in units    *)
(* of 1/10000.                                                             *)
(***************************************************************************)
\* the document's inline data besides GEOJSON
YEARS == <<2022, 2023>>
ALL_LANGS == << <<"a">>, <<"A">>, <<"b">> >>

\* the options of the metric and continent selects (lines 757-772)
MetricOptions == {"population", "gdp_pc"}
ContinentOptions == {"All", "Africa", "Asia", "Europe", "Americas", "Oceania"}
\* the options buildUI gives the language select
LanguageOptions == {<<"A", "l", "l">>} \cup Range(ALL_LANGS)
All == <<"A", "l", "l">>

\* positions of the height and contrast sliders that are tried (hundredths):
\* the ends of their ranges and the defaults
HeightOptions == {2, 12, 20}
PowerOptions == {20, 35, 80}

\* the state object as the script creates it
InitialState ==
    [metric |-> "population", yearIndex |-> Len(YEARS) - 1, continent |-> "All",
     language |-> All, maxalt |-> 12, power |-> 35]

\* annotated features as attach_all_properties leaves them
Profiles ==
    << [pop |-> <<Num(10), Num(10)>>, gdp |-> <<Num(0), Num(0)>>,
        continent |-> "Asia", langs |-> << <<"a">>, <<"b">> >>],
       [pop |-> <<Num(10), Num(100)>>, gdp |-> <<Num(1000), Num(-5)>>,
        continent |-> "Asia", langs |-> << <<"A">> >>],
       [pop |-> <<Num(0), Num(1000)>>, gdp |-> <<Num(10), Num(10)>>,
        continent |-> "Americas", langs |-> <<>>],
       [pop |-> <<Num(0), Num(0)>>, gdp |-> <<Num(0), Num(0)>>,
        continent |-> "Unknown", langs |-> <<>>],
       [pop |-> <<Num(-5), Num(1)>>, gdp |-> <<Num(100), Num(1)>>,
        continent |-> "Asia", langs |-> << <<"b">> >>] >>

NumFeatures == 3

\* the feature collections tried: NumFeatures profiles, in every combination
\* (the order of the features plays no part in the script)
Collections ==
    {[i \in 1..NumFeatures |-> Profiles[c[i]]] :
        c \in {d \in [1..NumFeatures -> DOMAIN Profiles] :
                  \A i \in 1..(NumFeatures - 1) : d[i] <= d[i + 1]}}

Min2(a, b) == IF a < b THEN a ELSE b
Max2(a, b) == IF a > b THEN a ELSE b

clamp(x, a, b) == Max2(a, Min2(b, x))

\* Math.max(0, Number(x) || 0): NaN stands for every value Number() maps to NaN
NonNegative(x) == IF IsNa(x) THEN 0 ELSE Max2(0, x.val)

\* Math.log10(x + 1) for the values in use, in units of 1/10000
Log10Fix(x) ==
    CASE x = 0 -> 0
      [] x = 1 -> 3010
      [] x = 10 -> 10414
      [] x = 100 -> 20043
      [] x = 1000 -> 30004

RECURSIVE Insert(_, _)
Insert(sorted, x) ==
    IF sorted = <<>> THEN <<x>>
    ELSE IF x <= Head(sorted) THEN <<x>> \o sorted
    ELSE <<Head(sorted)>> \o Insert(Tail(sorted), x)

RECURSIVE SortAsc(_)
\* Array.sort((a,b)=>a-b)
SortAsc(s) == IF s = <<>> THEN <<>> ELSE Insert(SortAsc(Tail(s)), Head(s))

\* p(arr, q) for q in hundredths, times 100: linear interpolation between the
\* two entries around position (arr.length - 1) * q
Percentile(arr, q) ==
    LET idx == (Len(arr) - 1) * q
        lo == idx \div 100
        rem == idx % 100
        hi == IF rem = 0 THEN lo ELSE lo + 1
    IN  (100 - rem) * arr[lo + 1] + rem * arr[hi + 1]

\* the quantiles computeHeights takes as bounds (lines 518-519), in hundredths
LoQuantile == 5
HiQuantile == 98

\* 1e-9, below the resolution of the fixed point: the smallest positive unit
Tiny == 1

\* Math.pow(t, power) for t and the result in hundredths
PowTable20 ==
    <<
       0, 40, 46, 50, 53, 55, 57, 59, 60, 62, 63, 64, 65, 66, 67, 68, 69,
       70, 71, 72, 72, 73, 74, 75, 75, 76, 76, 77, 78, 78, 79, 79, 80, 80,
       81, 81, 82, 82, 82, 83, 83, 84, 84, 84, 85, 85, 86, 86, 86, 87, 87,
       87, 88, 88, 88, 89, 89, 89, 90, 90, 90, 91, 91, 91, 91, 92, 92, 92,
       93, 93, 93, 93, 94, 94, 94, 94, 95, 95, 95, 95, 96, 96, 96, 96, 97,
       97, 97, 97, 97, 98, 98, 98, 98, 99, 99, 99, 99, 99, 100, 100, 100 >>
PowTable35 ==
    <<
       0, 20, 25, 29, 32, 35, 37, 39, 41, 43, 45, 46, 48, 49, 50, 51, 53,
       54, 55, 56, 57, 58, 59, 60, 61, 62, 62, 63, 64, 65, 66, 66, 67, 68,
       69, 69, 70, 71, 71, 72, 73, 73, 74, 74, 75, 76, 76, 77, 77, 78, 78,
       79, 80, 80, 81, 81, 82, 82, 83, 83, 84, 84, 85, 85, 86, 86, 86, 87,
       87, 88, 88, 89, 89, 90, 90, 90, 91, 91, 92, 92, 92, 93, 93, 94, 94,
       94, 95, 95, 96, 96, 96, 97, 97, 97, 98, 98, 99, 99, 99, 100, 100 >>
PowTable80 ==
    <<
       0, 3, 4, 6, 8, 9, 11, 12, 13, 15, 16, 17, 18, 20, 21, 22, 23,
       24, 25, 26, 28, 29, 30, 31, 32, 33, 34, 35, 36, 37, 38, 39, 40, 41,
       42, 43, 44, 45, 46, 47, 48, 49, 50, 51, 52, 53, 54, 55, 56, 57, 57,
       58, 59, 60, 61, 62, 63, 64, 65, 66, 66, 67, 68, 69, 70, 71, 72, 73,
       73, 74, 75, 76, 77, 78, 79, 79, 80, 81, 82, 83, 84, 84, 85, 86, 87,
       88, 89, 89, 90, 91, 92, 93, 94, 94, 95, 96, 97, 98, 98, 99, 100 >>

PowFix(t, power) ==
    CASE power = 20 -> PowTable20[t + 1]
      [] power = 35 -> PowTable35[t + 1]
      [] power = 80 -> PowTable80[t + 1]

\* the non-zero log-values, sorted (line 507)
NonZeroSorted(logv) == SortAsc(SelectSeq(logv, LAMBDA x : x > 0))

\* HeightBounds taking the least and the greatest value as the bounds
HeightBounds_MinMax(nz) == [lo |-> 100 * nz[1], hi |-> 100 * nz[Len(nz)]]

\* the bounds lo and hi of computeHeights (lines 518-519), times 100
HeightBounds(nz) == [lo |-> Percentile(nz, LoQuantile), hi |-> Percentile(nz, HiQuantile)]

\* Normalize measuring from the upper bound: (hi - x) / denom
Normalize_Inverted(x, lo, hi, power) ==
    LET denom == IF hi - lo # 0 THEN hi - lo ELSE Tiny
        xc == clamp(100 * x, lo, hi)
        ratio == (100 * (hi - xc)) \div denom
    IN  PowFix(clamp(ratio, 0, 100), power)

\* Normalize without its two clamps (the power is left out where the ratio
\* falls outside [0,1])
Normalize_Unclamped(x, lo, hi, power) ==
    LET denom == IF hi - lo # 0 THEN hi - lo ELSE Tiny
        ratio == (100 * (100 * x - lo)) \div denom
    IN  IF ratio >= 0 /\ ratio <= 100 THEN PowFix(ratio, power) ELSE ratio

\* the final map of computeHeights, for one log-value x (lines 522-527)
Normalize(x, lo, hi, power) ==
    LET denom == IF hi - lo # 0 THEN hi - lo ELSE Tiny
        xc == clamp(100 * x, lo, hi)
        ratio == (100 * (xc - lo)) \div denom
    IN  PowFix(clamp(ratio, 0, 100), power)

computeHeights(values, power) ==
    LET v == [i \in DOMAIN values |-> NonNegative(values[i])]
        logv == [i \in DOMAIN v |-> Log10Fix(v[i])]
        nz == NonZeroSorted(logv)
    IN  IF nz = <<>> THEN [i \in DOMAIN logv |-> 0]
        ELSE LET b == HeightBounds(nz)
             IN  [i \in DOMAIN logv |-> Normalize(logv[i], b.lo, b.hi, power)]

\* Math.round of a non-negative number given in hundredths
RoundHundredths(n) == (n + 50) \div 100

colorFromT(t0) ==
    LET t == clamp(t0, 0, 100)
    IN  <<RoundHundredths(6000 + 180 * t), RoundHundredths(16000 - 110 * t),
          RoundHundredths(23000 - 150 * t), 220>>

\* the colour of the features outside the filters (line 640)
DimColor == <<60, 60, 60, 60>>

matchesContinent(f, st) ==
    st.continent = "All" \/ f.continent = st.continent

matchesLanguage(f, st) ==
    \/ st.language = All
    \/ \E i \in DOMAIN f.langs : Lower(f.langs[i]) = Lower(st.language)

\* arr?.[i] ?? 0 for a 0-based index i
At(arr, i) == IF (i + 1) \in DOMAIN arr THEN arr[i + 1] ELSE Num(0)

rawValueFor(f, st) ==
    CASE st.metric = "population" -> At(f.pop, st.yearIndex)
      [] st.metric = "gdp_pc" -> At(f.gdp, st.yearIndex)
      [] OTHER -> Num(0)

IsActive(f, st) == matchesContinent(f, st) /\ matchesLanguage(f, st)

\* the positions of the active features, ascending (Array.filter)
ActiveIndexes(feats, st) == SortedSeq({i \in DOMAIN feats : IsActive(feats[i], st)})

\* the fields updateComputedProps sets on an active feature with height t
ActiveFields(f, t, st) ==
    [_t |-> t, _alt |-> t * st.maxalt, _col |-> colorFromT(t), _val |-> rawValueFor(f, st)]

\* the fields updateComputedProps sets on a feature outside the filters
DimFields == [_t |-> 0, _alt |-> 0, _col |-> DimColor, _val |-> Num(0)]

\* updateComputedProps without its second loop: the features outside the
\* filters are left as they were
updateComputedProps_ActiveOnly(feats, st) ==
    LET active == ActiveIndexes(feats, st)
        rawVals == [k \in DOMAIN active |-> rawValueFor(feats[active[k]], st)]
        tVals == computeHeights(rawVals, st.power)
    IN  [i \in DOMAIN feats |->
            IF \E k \in DOMAIN active : active[k] = i
            THEN ActiveFields(feats[i], tVals[CHOOSE k \in DOMAIN active : active[k] = i], st)
                 @@ feats[i]
            ELSE feats[i]]

\* the features as updateComputedProps leaves them
updateComputedProps(feats, st) ==
    LET active == ActiveIndexes(feats, st)
        rawVals == [k \in DOMAIN active |-> rawValueFor(feats[active[k]], st)]
        tVals == computeHeights(rawVals, st.power)
        afterActive ==
            [i \in DOMAIN feats |->
                IF \E k \in DOMAIN active : active[k] = i
                THEN ActiveFields(feats[i], tVals[CHOOSE k \in DOMAIN active : active[k] = i], st)
                     @@ feats[i]
                ELSE feats[i]]
    IN  [i \in DOMAIN feats |->
            IF ~IsActive(afterActive[i], st) THEN DimFields @@ afterActive[i]
            ELSE afterActive[i]]

\* the pipeline's variables, unused by the viewer
PipelineIdle ==
    /\ exists = InputFiles
    /\ pop_wide = <<>>
    /\ gdp_wide = <<>>
    /\ cont_csv = <<>>
    /\ lang_csv = <<>>
    /\ cache = Absent
    /\ out_file = Absent
    /\ pc = "idle"
    /\ LocalsInit
    /\ runs = 0

pipelineVars == <<fsVars, cache, out_file, pc, tabVars, langVars, geoVars, histVars>>

\* the document is opened: the script has its data, nothing is computed yet
ViewerInit ==
    /\ PipelineIdle
    /\ GEOJSON \in Collections
    /\ state = InitialState
    /\ loaded = FALSE
    /\ atLoad = <<>>
    /\ lastEvent = "none"

\* the end of the script: buildUI(); updateComputedProps()
Load ==
    /\ ~loaded
    /\ loaded' = TRUE
    /\ GEOJSON' = updateComputedProps(GEOJSON, state)
    /\ atLoad' = GEOJSON'
    /\ lastEvent' = "load"
    /\ UNCHANGED <<state, pipelineVars>>

\* the tail of every handler: updateComputedProps() on the changed state
Recompute ==
    /\ GEOJSON' = updateComputedProps(GEOJSON, state')
    /\ UNCHANGED <<loaded, atLoad, pipelineVars>>

YearInput ==
    /\ loaded
    /\ \E i \in 0..(Len(YEARS) - 1) : state' = [state EXCEPT !.yearIndex = i]
    /\ lastEvent' = "control"
    /\ Recompute

MetricChange ==
    /\ loaded
    /\ \E m \in MetricOptions : state' = [state EXCEPT !.metric = m]
    /\ lastEvent' = "control"
    /\ Recompute

ContinentChange ==
    /\ loaded
    /\ \E c \in ContinentOptions : state' = [state EXCEPT !.continent = c]
    /\ lastEvent' = "control"
    /\ Recompute

LanguageChange ==
    /\ loaded
    /\ \E l \in LanguageOptions : state' = [state EXCEPT !.language = l]
    /\ lastEvent' = "control"
    /\ Recompute

HeightInput ==
    /\ loaded
    /\ \E h \in HeightOptions : state' = [state EXCEPT !.maxalt = h]
    /\ lastEvent' = "control"
    /\ Recompute

PowerInput ==
    /\ loaded
    /\ \E p \in PowerOptions : state' = [state EXCEPT !.power = p]
    /\ lastEvent' = "control"
    /\ Recompute

\* ResetClick leaving the contrast slider's value in the state
ResetClick_KeepsPower ==
    /\ loaded
    /\ state' = [InitialState EXCEPT !.power = state.power]
    /\ lastEvent' = "reset"
    /\ Recompute

ResetClick ==
    /\ loaded
    /\ state' = InitialState
    /\ lastEvent' = "reset"
    /\ Recompute

ViewerNext ==
    \/ Load
    \/ YearInput
    \/ MetricChange
    \/ ContinentChange
    \/ LanguageChange
    \/ HeightInput
    \/ PowerInput
    \/ ResetClick

SpecViewer == ViewerInit /\ [][ViewerNext]_vars

(***************************************************************************)
(* Properties of the viewer.                                               *)
(***************************************************************************)
\* the raw values and log-values of the active set in the current state
ActiveRaw ==
    LET active == ActiveIndexes(GEOJSON, state)
    IN  [k \in DOMAIN active |-> rawValueFor(GEOJSON[active[k]], state)]

ActiveLog == [k \in DOMAIN ActiveRaw |-> Log10Fix(NonNegative(ActiveRaw[k]))]

ActiveNonZero == NonZeroSorted(ActiveLog)

\* the feature has no data for the selected metric: its array is the default
NoData(f) ==
    CASE state.metric = "population" -> f.pop = ZeroArr(YEARS)
      [] state.metric = "gdp_pc" -> f.gdp = ZeroArr(YEARS)

IsGray(c) == c[1] = c[2] /\ c[2] = c[3]

\* C3: a country with no data for the selected metric has displayed value 0,
\* elevation 0 and a neutral gray colour, in every filter state (whether or
\* not it passes the continent and language filters)
C3_NoDataIsGray ==
    loaded =>
        \A i \in DOMAIN GEOJSON :
            NoData(GEOJSON[i]) =>
                /\ GEOJSON[i]._val = Num(0)
                /\ GEOJSON[i]._alt = 0
                /\ IsGray(GEOJSON[i]._col)

\* what updateComputedProps gives such a country instead: value 0,
\* elevation 0 and t = 0 in every filter state, with colorFromT(0), the low
\* end of the gradient, while it passes the filters and the dim colour while
\* it does not; the gray of polygonCapColor's fallback is never shown
C3_NoDataIsLowEnd ==
    loaded =>
        \A i \in DOMAIN GEOJSON :
            NoData(GEOJSON[i]) =>
                /\ GEOJSON[i]._val = Num(0)
                /\ GEOJSON[i]._alt = 0
                /\ GEOJSON[i]._t = 0
                /\ GEOJSON[i]._col = IF IsActive(GEOJSON[i], state)
                                     THEN <<60, 160, 230, 220>>
                                     ELSE <<60, 60, 60, 60>>

\* the case of C3: with a continent filter set, one country without data passes
\* the filter, another does not, and a third country has data
C3_Witness ==
    /\ loaded
    /\ state.continent # "All"
    /\ \E i, j, k \in DOMAIN GEOJSON :
          /\ NoData(GEOJSON[i]) /\ IsActive(GEOJSON[i], state)
          /\ NoData(GEOJSON[j]) /\ ~IsActive(GEOJSON[j], state)
          /\ ~NoData(GEOJSON[k])
          /\ GEOJSON[i]._col # GEOJSON[j]._col

\* C8: log-normalisation is monotonic: of two values normalised together
\* (two features of the active set, under any contrast power), the larger
\* positive value has a normalised height at least that of the smaller.
C8_Monotonic ==
    loaded =>
        \A i, j \in DOMAIN GEOJSON :
            (/\ IsActive(GEOJSON[i], state) /\ IsActive(GEOJSON[j], state)
             /\ ~IsNa(GEOJSON[i]._val) /\ ~IsNa(GEOJSON[j]._val)
             /\ GEOJSON[i]._val.val > GEOJSON[j]._val.val
             /\ GEOJSON[j]._val.val > 0)
            => GEOJSON[i]._t >= GEOJSON[j]._t

\* C8 witness: under a contrast power other than the default, three active
\* features with distinct positive values and distinct heights
C8_Witness ==
    /\ loaded
    /\ state.power # InitialState.power
    /\ \E i, j, k \in DOMAIN GEOJSON :
          /\ IsActive(GEOJSON[i], state) /\ IsActive(GEOJSON[j], state)
          /\ IsActive(GEOJSON[k], state)
          /\ GEOJSON[i]._val.val > GEOJSON[j]._val.val
          /\ GEOJSON[j]._val.val > GEOJSON[k]._val.val
          /\ GEOJSON[k]._val.val > 0
          /\ GEOJSON[i]._t > GEOJSON[j]._t
          /\ GEOJSON[j]._t > GEOJSON[k]._t

\* C9 as stated: the normalisation bounds are the least and the greatest of
\* the non-zero log-values
C9_BoundsAreMinMax ==
    (loaded /\ ActiveNonZero # <<>>) =>
        /\ HeightBounds(ActiveNonZero).lo = 100 * ActiveNonZero[1]
        /\ HeightBounds(ActiveNonZero).hi = 100 * ActiveNonZero[Len(ActiveNonZero)]

\* the active set's positive raw values are exactly 10, 100 and 1000
ExampleSet ==
    /\ Len(ActiveRaw) = 3
    /\ {ActiveRaw[k].val : k \in DOMAIN ActiveRaw} = {10, 100, 1000}

\* C9 amended: the bounds are computed from the non-zero log-values only, as
\* their 5th and 98th percentiles, each interpolated linearly between the two
\* neighbouring sorted values (so min <= lo <= hi <= max, with lo = min and
\* hi = max only for a single value or equal neighbours); with no non-zero
\* value no bounds are taken and every t is 0; for the values {10, 100, 1000}
\* the bounds are 0.9*log10(11) + 0.1*log10(101) and
\* 0.04*log10(101) + 0.96*log10(1001), and the middle value's t lies
\* strictly between 0 and 1.
C9_BoundsArePercentiles ==
    loaded =>
        LET nz == ActiveNonZero
            n == Len(nz)
            b == HeightBounds(nz)
            active == ActiveIndexes(GEOJSON, state)
        IN  /\ n = 0 => \A k \in DOMAIN active : GEOJSON[active[k]]._t = 0
            /\ n = 1 => b.lo = 100 * nz[1] /\ b.hi = 100 * nz[1]
            /\ n >= 2 =>
                  /\ b.lo = (100 - 5 * (n - 1)) * nz[1] + 5 * (n - 1) * nz[2]
                  /\ b.hi = 2 * (n - 1) * nz[n - 1] + (100 - 2 * (n - 1)) * nz[n]
            /\ n >= 1 =>
                  /\ 100 * nz[1] <= b.lo /\ b.lo <= b.hi /\ b.hi <= 100 * nz[n]
                  /\ \A k \in DOMAIN active :
                        /\ 100 * ActiveLog[k] <= b.lo => GEOJSON[active[k]]._t = 0
                        /\ (100 * ActiveLog[k] >= b.hi /\ b.hi > b.lo)
                              => GEOJSON[active[k]]._t = 100
            /\ ExampleSet =>
                  /\ b.lo = 90 * 10414 + 10 * 20043
                  /\ b.hi = 4 * 20043 + 96 * 30004
                  /\ \A k \in DOMAIN active :
                        ActiveRaw[k].val = 100 =>
                            /\ GEOJSON[active[k]]._t > 0
                            /\ GEOJSON[active[k]]._t < 100

\* C9 witness: the three countries shown have the values 10, 100 and 1000
C9_Witness ==
    /\ loaded
    /\ ExampleSet
    /\ HeightBounds(ActiveNonZero).lo > 100 * ActiveNonZero[1]
    /\ HeightBounds(ActiveNonZero).hi < 100 * ActiveNonZero[3]

\* values with the entry at position k replaced by a non-numeric value
WithNonNumeric(values, k) == [values EXCEPT ![k] = NaN]

\* C10: in every viewer state each feature's normalised value t lies in
\* [0,1] and its altitude in [0, maxalt], whatever the raw values (zero,
\* negative, or non-numeric in place of any one of them); when the two
\* normalisation bounds coincide, t is 0 for every feature.
C10_HeightsInRange ==
    loaded =>
        /\ \A i \in DOMAIN GEOJSON :
              /\ GEOJSON[i]._t >= 0 /\ GEOJSON[i]._t <= 100
              /\ GEOJSON[i]._alt >= 0 /\ GEOJSON[i]._alt <= 100 * state.maxalt
        /\ \A k \in DOMAIN ActiveRaw :
              LET ts == computeHeights(WithNonNumeric(ActiveRaw, k), state.power)
              IN  /\ ts[k] = 0
                  /\ \A h \in DOMAIN ts : ts[h] >= 0 /\ ts[h] <= 100
        /\ (/\ ActiveNonZero # <<>>
            /\ HeightBounds(ActiveNonZero).lo = HeightBounds(ActiveNonZero).hi)
              => \A i \in DOMAIN GEOJSON : GEOJSON[i]._t = 0

\* C10 witness: the active set holds a negative value, a zero and a single
\* non-zero value, so that the bounds coincide
C10_Witness ==
    /\ loaded
    /\ Len(ActiveNonZero) = 1
    /\ HeightBounds(ActiveNonZero).lo = HeightBounds(ActiveNonZero).hi
    /\ \E k \in DOMAIN ActiveRaw : ActiveRaw[k].val < 0
    /\ \E k \in DOMAIN ActiveRaw : ActiveRaw[k].val = 0
    /\ \A i \in DOMAIN GEOJSON : GEOJSON[i]._t = 0

\* the annotation of a feature, without the derived visual fields
Annotated(f) == [pop |-> f.pop, gdp |-> f.gdp, continent |-> f.continent, langs |-> f.langs]

\* a fresh computation from the annotated features and the filter state st
Fresh(st) == updateComputedProps([i \in DOMAIN GEOJSON |-> Annotated(GEOJSON[i])], st)

\* C11: after any sequence of control events the derived fields of every
\* feature equal a fresh computation from the annotated features and the
\* current filter state (no dependence on the event history), re-running
\* the recomputation in the same state changes nothing, and every feature
\* that fails a filter has _t = 0, _alt = 0, _val = 0 and the dim colour.
C11_DerivedFromStateAlone ==
    loaded =>
        /\ GEOJSON = Fresh(state)
        /\ updateComputedProps(GEOJSON, state) = GEOJSON
        /\ \A i \in DOMAIN GEOJSON :
              ~IsActive(GEOJSON[i], state) =>
                  /\ GEOJSON[i]._t = 0
                  /\ GEOJSON[i]._alt = 0
                  /\ GEOJSON[i]._val = Num(0)
                  /\ GEOJSON[i]._col = <<60, 60, 60, 60>>

\* C11 witness: after a control event, a feature that was raised and
\* coloured at load is outside the filters, next to one that is raised now
C11_Witness ==
    /\ loaded
    /\ lastEvent = "control"
    /\ \E i, j \in DOMAIN GEOJSON :
          /\ ~IsActive(GEOJSON[i], state)
          /\ atLoad[i]._alt > 0
          /\ IsActive(GEOJSON[j], state)
          /\ GEOJSON[j]._alt > 0
          /\ GEOJSON[j] # atLoad[j]

\* C14: from any viewer state the Reset control restores the filter state
\* to its initial value (population, last year, All, All, 0.12, 0.35) and
\* leaves every feature's derived fields as the initial load computed them.
C14_ResetRestoresInitial ==
    lastEvent = "reset" =>
        /\ state = [metric |-> "population", yearIndex |-> Len(YEARS) - 1,
                    continent |-> "All", language |-> All, maxalt |-> 12, power |-> 35]
        /\ GEOJSON = atLoad

\* C14 witness: Reset has just been handled, and the initial load had raised
\* and coloured some feature
C14_Witness ==
    /\ loaded
    /\ lastEvent = "reset"
    /\ \E i \in DOMAIN GEOJSON : GEOJSON[i]._alt > 0 /\ atLoad[i]._alt > 0

====
